---------------------------- MODULE Spec2Model ----------------------------
(***************************************************************************)
(* Model of the AWLMIX batch calculator:                                   *)
(*   - the rework planner of src/pages/rework.py                           *)
(*       compute_max_safe_fraction, compute_plan                           *)
(*   - the ratio scaler of src/pages/new_batch.py ("Calculate batch")      *)
(*                                                                         *)
(* Numbers.  The program computes with Python floats.  The model computes  *)
(* with exact rationals <<num, den>> (den > 0, lowest terms), so every     *)
(* statement below is a statement about the arithmetic the code writes     *)
(* down, without binary64 rounding error.  float("inf") is <<1, 0>>.       *)
(* Quantities entered by the user are whole numbers of a quantum; the      *)
(* quantum is one gram, or 1e-9 gram, the scale of compute_plan's          *)
(* tolerance (quanta_per_gram says which).                                 *)
(***************************************************************************)
EXTENDS Integers, Sequences, FiniteSets, TLC

(***************************************************************************)
(* Bounds of the model.                                                    *)
(***************************************************************************)
MaxQty == 2        \* largest quantity of a generated formula line
MaxNum == 3        \* largest numerator of a manually chosen reuse fraction
MaxDen == 2        \* largest denominator of a manually chosen reuse fraction

(***************************************************************************)
(* Program constants.                                                      *)
(***************************************************************************)
EpsInv == 1000000000   \* the tolerance 1e-9 of compute_plan is 1 / EpsInv

IngNames == <<"A", "B", "C", "D">>   \* ingredient codes, in sorted() order

NA == "N/A"        \* the limiting ingredient reported when nothing constrains
None == "None"     \* Python's None
NoTarget == <<>>   \* no row of ProductWeightTargets for the product

(***************************************************************************)
(* Exact rational arithmetic.                                              *)
(***************************************************************************)
Abs(x) == IF x < 0 THEN 0 - x ELSE x

RECURSIVE GCD(_, _)
GCD(a, b) == IF b = 0 THEN a ELSE GCD(b, a % b)

Inf == <<1, 0>>

Norm(q) ==
    IF q[2] = 0 THEN Inf
    ELSE LET s == IF q[2] < 0 THEN 0 - 1 ELSE 1
             g == GCD(Abs(q[1]), Abs(q[2]))
         IN  <<(s * q[1]) \div g, (s * q[2]) \div g>>

Rat(n) == <<n, 1>>
Zero == Rat(0)

RMul(a, b) == Norm(<<a[1] * b[1], a[2] * b[2]>>)
RDiv(a, b) == Norm(<<a[1] * b[2], a[2] * b[1]>>)
\* a and b over their least common denominator: <<num a, num b, den>>
Common(a, b) ==
    LET g == IF a[2] = 0 \/ b[2] = 0 THEN 1 ELSE GCD(a[2], b[2])
    IN  <<a[1] * (b[2] \div g), b[1] * (a[2] \div g), (a[2] \div g) * b[2]>>

RAdd(a, b) == Norm(<<Common(a, b)[1] + Common(a, b)[2], Common(a, b)[3]>>)
RSub(a, b) == Norm(<<Common(a, b)[1] - Common(a, b)[2], Common(a, b)[3]>>)

\* a < b; anything finite is below float("inf")
RLt(a, b) ==
    IF b = Inf THEN a # Inf
    ELSE IF a = Inf THEN FALSE
    ELSE Common(a, b)[1] < Common(a, b)[2]

RLe(a, b) == a = b \/ RLt(a, b)

RECURSIVE RSum(_)
RSum(s) == IF s = <<>> THEN Zero ELSE RAdd(Head(s), RSum(Tail(s)))

(***************************************************************************)
(* Formulas: a Python dict, ingredient code -> quantity.                   *)
(***************************************************************************)
\* the ingredient codes a generated formula may use
Ingredients == {"A", "B", "C"}

Dicts == UNION {[S -> 0..MaxQty] : S \in SUBSET Ingredients}

\* d.get(ing, 0) or 0
Get(d, ing) == IF ing \in DOMAIN d THEN d[ing] ELSE 0

\* sorted(S), S a set of ingredient codes
Sorted(S) == SelectSeq(IngNames, LAMBDA x : x \in S)

ExampleRework == [i \in {"A", "B", "C", "D"} |->
    CASE i = "A" -> 7890 [] i = "B" -> 5 [] i = "C" -> 25 [] OTHER -> 60]

ExampleTarget == [i \in {"A", "B", "C", "D"} |->
    CASE i = "A" -> 14776 [] i = "B" -> 4 [] i = "C" -> 744 [] OTHER -> 180]

(***************************************************************************)
(* rework.py: compute_max_safe_fraction                                    *)
(***************************************************************************)
\* faulty variant: only negative rework quantities are skipped
SkipsNegativeOnly(rw) == rw < 0

\* "if rw <= 0: continue"
SkipsLine(rw) == rw <= 0

\* "f_i = tg / rw"
LimitRatio(tg, rw) == RDiv(Rat(tg), Rat(rw))

\* faulty variant: a ratio equal to the current minimum takes its place
TighterOrEqual(f_i, cur_max_f) == RLe(f_i, cur_max_f)

\* faulty variant: the comparison is turned round, the largest ratio wins
TighterPicksLargest(f_i, cur_max_f) == cur_max_f = Inf \/ RLt(cur_max_f, f_i)

\* "if f_i < max_f"
Tighter(f_i, cur_max_f) == RLt(f_i, cur_max_f)

\* the body of "for ing in shared", acc = [max_f, limiting, rows]
RECURSIVE MaxSafeLoop(_, _, _, _)
MaxSafeLoop(rework, target, shared, acc) ==
    IF shared = <<>> THEN acc
    ELSE LET ing == Head(shared)
             rw  == Get(rework, ing)
             tg  == Get(target, ing)
         IN  IF SkipsLine(rw)
             THEN MaxSafeLoop(rework, target, Tail(shared), acc)
             ELSE LET f_i == LimitRatio(tg, rw)
                      row == [Ingredient |-> ing, Ratio |-> f_i,
                              Target_g |-> tg, Rework_g |-> rw]
                      nxt == IF Tighter(f_i, acc.max_f)
                             THEN [max_f |-> f_i, limiting |-> ing,
                                   rows |-> acc.rows \cup {row}]
                             ELSE [acc EXCEPT !.rows = @ \cup {row}]
                  IN  MaxSafeLoop(rework, target, Tail(shared), nxt)

\* faulty variant: the "nothing constrains" test looks for 0 instead of infinity
NothingConstrainsTestsZero(r) == r.max_f = Zero

\* "if max_f == float("inf"): return 0.0, "N/A", limits_df"
NothingConstrains(r) == r.max_f = Inf

compute_max_safe_fraction(rework, target) ==
    LET shared == Sorted(DOMAIN rework \cap DOMAIN target)
        r == MaxSafeLoop(rework, target, shared,
                         [max_f |-> Inf, limiting |-> None, rows |-> {}])
    IN  IF NothingConstrains(r)
        THEN [max_f |-> Zero, limiting |-> NA, rows |-> r.rows]
        ELSE r

(***************************************************************************)
(* rework.py: compute_plan                                                 *)
(***************************************************************************)
\* faulty variant: the reuse fraction is taken for a percentage
UsedAsPercent(reuse_fraction, rw) == RDiv(RMul(reuse_fraction, Rat(rw)), Rat(100))

\* "used = reuse_fraction * rw"
Used(reuse_fraction, rw) == RMul(reuse_fraction, Rat(rw))

\* faulty variant: a negative add-back is clamped to 0
AddBackClamped(tg, used) ==
    IF RLt(RSub(Rat(tg), used), Zero) THEN Zero ELSE RSub(Rat(tg), used)

\* "add = tg - used"
AddBack(tg, used) == RSub(Rat(tg), used)

\* faulty variant: the flag is raised without the tolerance
OverTargetNoTolerance(add, qpg) == add[1] < 0

\* "add < -1e-9", add a rational number of quanta, qpg quanta to the gram:
\* add / qpg < -1 / EpsInv  iff  -num(add) * (EpsInv / qpg) > den(add)
OverTarget(add, qpg) == (0 - add[1]) > add[2] \div (EpsInv \div qpg)

PlanLine(rework, target, reuse_fraction, qpg, ing) ==
    LET rw   == Get(rework, ing)
        tg   == Get(target, ing)
        used == Used(reuse_fraction, rw)
        add  == AddBack(tg, used)
    IN  [Ingredient |-> ing, Rework_g |-> rw, Target_g |-> tg,
         Used_from_Rework_g |-> used, Add_Back_g |-> add,
         Over_Target |-> OverTarget(add, qpg)]

\* faulty variant: only the shared ingredients get a line
AllIngsSharedOnly(rework, target) == Sorted(DOMAIN rework \cap DOMAIN target)

\* "all_ings = sorted(set(rework.keys()) | set(target.keys()))"
AllIngs(rework, target) == Sorted(DOMAIN rework \cup DOMAIN target)

compute_plan(rework, target, reuse_fraction, qpg) ==
    LET all_ings == AllIngs(rework, target)
    IN  [k \in 1..Len(all_ings) |->
            PlanLine(rework, target, reuse_fraction, qpg, all_ings[k])]

(***************************************************************************)
(* State of the rework planner.                                            *)
(***************************************************************************)
VARIABLES
    rework_dict,      \* the rework (old batch) formula
    target_dict,      \* the target (new batch) formula
    quanta_per_gram,  \* 1: quantities in grams; EpsInv: in 1e-9 g
    limits_done,      \* compute_max_safe_fraction has been run
    max_f,            \* its result
    limiting,
    limits_df,
    planned,          \* compute_plan has been run
    reuse_fraction,   \* its argument
    plan_df,          \* its result
    mode,             \* "Reuse mode"
    manual_pct,       \* "Manual reuse percent"
    rw_calc,          \* "Calculate rework plan": "idle", "error" or "done"
    reuse_pct         \* the percentage the ticket is built for, or None

page_vars == <<mode, manual_pct, rw_calc, reuse_pct>>

rework_vars == <<rework_dict, target_dict, quanta_per_gram, limits_done, max_f, limiting,
                 limits_df, planned, reuse_fraction, plan_df, page_vars>>

VARIABLES
    old_g,        \* the old quantity of each ingredient line, in grams
    new_total,    \* "New batch total (g)", a rational
    typed_total,  \* what the user last typed into that field
    rounding,     \* the "Rounding" selection
    calc,         \* "idle": not pressed; "error": st.error + st.stop; "done"
    ratios,
    final,
    out_new_g     \* the "New (g)" column of out_df

scale_vars == <<old_g, new_total, typed_total, rounding, calc, ratios, final,
                out_new_g>>

VARIABLES
    ledger,        \* the rows of InventoryTxn, in the order they were inserted
    receipt_cart,  \* st.session_state.receipt_cart
    issue_cart     \* st.session_state.issue_cart

db_vars == <<ledger, receipt_cart, issue_cart>>

VARIABLES
    bom_rows,            \* the BOM rows of the selected product
    units,               \* "Units to make"
    weight_per_unit_lb,  \* the product's weight target, or NoTarget
    location_code,       \* "Location"
    uom,                 \* "Compare UOM"
    feas_calc,           \* "idle", "stopped" (st.stop) or "done"
    uom_notice,          \* the st.info about exact UOM matching is shown
    feas_rows            \* the result table, material -> row

feas_vars == <<bom_rows, units, weight_per_unit_lb, location_code, uom,
               feas_calc, uom_notice, feas_rows>>

VARIABLES
    pb_table,      \* "present": the database has the ProductionBatch table
    batches,       \* the rows of ProductionBatch, in the order of BatchID
    user,          \* "Your name (required)", a sequence of characters
    batch_number,  \* "Batch Number (required)", a sequence of characters
    qty_units,     \* "Qty (Units)"
    pb_msg         \* what the last press on the Production Batch page showed

batch_vars == <<pb_table, batches, user, batch_number, qty_units, pb_msg>>

VARIABLES
    LocationsTable,  \* the LocationCode column of table Locations, by LocationID
    MaterialMaster,  \* the rows of table MaterialMaster, by MaterialID
    csv_rows,        \* the rows of MaterialMaster.csv
    app_runs         \* how many times the main script has run

seed_vars == <<LocationsTable, MaterialMaster, csv_rows, app_runs>>

Fractions == {Norm(<<n, d>>) : n \in 0..MaxNum, d \in 1..MaxDen}

InitRework ==
    /\ \/ /\ rework_dict \in Dicts
          /\ target_dict \in Dicts
          /\ quanta_per_gram \in {1, EpsInv}
       \/ /\ rework_dict = ExampleRework
          /\ target_dict = ExampleTarget
          /\ quanta_per_gram = 1
    /\ limits_done = FALSE
    /\ max_f = Inf
    /\ limiting = None
    /\ limits_df = {}
    /\ planned = FALSE
    /\ reuse_fraction = Zero
    /\ plan_df = <<>>
    /\ mode = "Auto (max safe)"
    /\ manual_pct = Rat(80)
    /\ rw_calc = "idle"
    /\ reuse_pct = None
    \* the New Batch page, not used
    /\ old_g = <<0>>
    /\ new_total = Zero
    /\ typed_total = Zero
    /\ rounding = "1 g"
    /\ calc = "idle"
    /\ ratios = <<>>
    /\ final = <<>>
    /\ out_new_g = <<>>
    \* the Inventory and Feasibility pages, not used
    /\ ledger = <<>>
    /\ receipt_cart = <<>>
    /\ issue_cart = <<>>
    /\ bom_rows = <<>>
    /\ units = Rat(1)
    /\ weight_per_unit_lb = NoTarget
    /\ location_code = "AWLMIX"
    /\ uom = "LB"
    /\ feas_calc = "idle"
    /\ uom_notice = FALSE
    /\ feas_rows = <<>>
    \* the Production Batch page and the seeded tables, not used
    /\ pb_table = "present"
    /\ batches = <<>>
    /\ user = <<>>
    /\ batch_number = <<>>
    /\ qty_units = 0
    /\ pb_msg = "none"
    /\ LocationsTable = <<"AWLMIX", "CENTRAL", "F_WAREHOUSE">>
    /\ MaterialMaster = <<>>
    /\ csv_rows = <<>>
    /\ app_runs = 1

\* One run of the page script calls each function at most once: its results
\* are locals of the run, and the next press of the button starts afresh.

\* a call of compute_max_safe_fraction(rework_dict, target_dict)
ComputeMaxSafeFraction ==
    LET r == compute_max_safe_fraction(rework_dict, target_dict)
    IN  /\ ~limits_done
        /\ limits_done' = TRUE
        /\ max_f' = r.max_f
        /\ limiting' = r.limiting
        /\ limits_df' = r.rows
        /\ UNCHANGED <<rework_dict, target_dict, quanta_per_gram, planned,
                       reuse_fraction, plan_df, page_vars, scale_vars,
                       db_vars, feas_vars, batch_vars, seed_vars>>

\* a call of compute_plan(rework_dict, target_dict, f), f chosen by the caller
ComputePlan ==
    \E f \in Fractions :
        /\ ~planned
        /\ planned' = TRUE
        /\ reuse_fraction' = f
        /\ plan_df' = compute_plan(rework_dict, target_dict, f, quanta_per_gram)
        /\ UNCHANGED <<rework_dict, target_dict, quanta_per_gram, limits_done,
                       max_f, limiting, limits_df, page_vars, scale_vars,
                       db_vars, feas_vars, batch_vars, seed_vars>>

\* a call of compute_plan at the fraction compute_max_safe_fraction returned
ComputePlanAtMaxSafe ==
    /\ limits_done
    /\ ~planned
    /\ planned' = TRUE
    /\ reuse_fraction' = max_f
    /\ plan_df' = compute_plan(rework_dict, target_dict, max_f, quanta_per_gram)
    /\ UNCHANGED <<rework_dict, target_dict, quanta_per_gram, limits_done,
                   max_f, limiting, limits_df, page_vars, scale_vars,
                   db_vars, feas_vars, batch_vars, seed_vars>>

(***************************************************************************)
(* rework.py: the "Calculate rework plan" button                           *)
(***************************************************************************)
Modes == {"Auto (max safe)", "Manual"}

\* "Manual reuse percent": 0.0 to 100.0 in steps of 0.5, 80.0 to start with
ManualPcts == {Rat(0), <<1, 2>>, Rat(80), Rat(100)}

\* collect_lines: "total += float(g)" for every line that entered the dict
RECURSIVE DictTotal(_)
DictTotal(d) ==
    IF DOMAIN d = {} THEN 0
    ELSE LET i == CHOOSE x \in DOMAIN d : TRUE
         IN  d[i] + DictTotal([x \in DOMAIN d \ {i} |-> d[x]])

rework_total == DictTotal(rework_dict)
target_total == DictTotal(target_dict)

\* faulty variant: the press is refused only when both totals are 0
RejectsWhenBothEmpty(rt, tt) == rt <= 0 /\ tt <= 0

\* "if rework_total <= 0 or target_total <= 0"
TotalsRejected(rt, tt) == rt <= 0 \/ tt <= 0

\* faulty variant: the percentage is not capped at 100
safe_pct_uncapped(f) == RMul(f, Rat(100))

\* "safe_pct = min(100.0, max_f * 100)"
safe_pct(f) ==
    IF RLt(Rat(100), RMul(f, Rat(100))) THEN Rat(100) ELSE RMul(f, Rat(100))

InitReworkPage ==
    /\ \/ /\ rework_dict \in Dicts
          /\ target_dict \in Dicts
       \/ /\ rework_dict = ExampleRework
          /\ target_dict = ExampleTarget
    /\ quanta_per_gram = 1
    /\ \/ /\ mode = "Auto (max safe)"
          /\ manual_pct = Rat(80)
       \/ /\ mode = "Manual"
          /\ manual_pct \in ManualPcts
    /\ rw_calc = "idle"
    /\ reuse_pct = None
    /\ limits_done = FALSE
    /\ max_f = Inf
    /\ limiting = None
    /\ limits_df = {}
    /\ planned = FALSE
    /\ reuse_fraction = Zero
    /\ plan_df = <<>>
    \* the New Batch page, not used
    /\ old_g = <<0>>
    /\ new_total = Zero
    /\ typed_total = Zero
    /\ rounding = "1 g"
    /\ calc = "idle"
    /\ ratios = <<>>
    /\ final = <<>>
    /\ out_new_g = <<>>
    \* the Inventory and Feasibility pages, not used
    /\ ledger = <<>>
    /\ receipt_cart = <<>>
    /\ issue_cart = <<>>
    /\ bom_rows = <<>>
    /\ units = Rat(1)
    /\ weight_per_unit_lb = NoTarget
    /\ location_code = "AWLMIX"
    /\ uom = "LB"
    /\ feas_calc = "idle"
    /\ uom_notice = FALSE
    /\ feas_rows = <<>>
    \* the Production Batch page and the seeded tables, not used
    /\ pb_table = "present"
    /\ batches = <<>>
    /\ user = <<>>
    /\ batch_number = <<>>
    /\ qty_units = 0
    /\ pb_msg = "none"
    /\ LocationsTable = <<"AWLMIX", "CENTRAL", "F_WAREHOUSE">>
    /\ MaterialMaster = <<>>
    /\ csv_rows = <<>>
    /\ app_runs = 1

\* "st.error("Rework and target totals must be greater than zero."); st.stop()"
CalculateReworkPlanRejected ==
    /\ rw_calc = "idle"
    /\ TotalsRejected(rework_total, target_total)
    /\ rw_calc' = "error"
    /\ UNCHANGED <<rework_dict, target_dict, quanta_per_gram, limits_done,
                   max_f, limiting, limits_df, planned, reuse_fraction,
                   plan_df, mode, manual_pct, reuse_pct, scale_vars, db_vars,
                   feas_vars, batch_vars, seed_vars>>

CalculateReworkPlanDone ==
    /\ rw_calc = "idle"
    /\ ~TotalsRejected(rework_total, target_total)
    /\ LET r   == compute_max_safe_fraction(rework_dict, target_dict)
           pct == IF mode = "Auto (max safe)" THEN safe_pct(r.max_f)
                  ELSE manual_pct
           f   == RDiv(pct, Rat(100))
       IN  /\ limits_done' = TRUE
           /\ max_f' = r.max_f
           /\ limiting' = r.limiting
           /\ limits_df' = r.rows
           /\ reuse_pct' = pct
           /\ reuse_fraction' = f
           /\ planned' = TRUE
           /\ plan_df' = compute_plan(rework_dict, target_dict, f,
                                      quanta_per_gram)
    /\ rw_calc' = "done"
    /\ UNCHANGED <<rework_dict, target_dict, quanta_per_gram, mode, manual_pct,
                   scale_vars, db_vars, feas_vars, batch_vars, seed_vars>>

\* the "Calculate rework plan" button
CalculateReworkPlan == CalculateReworkPlanRejected \/ CalculateReworkPlanDone

(***************************************************************************)
(* new_batch.py: the "Calculate batch" computation                         *)
(***************************************************************************)
MaxLines == 4      \* largest number of ingredient lines of a formula
MaxOld == 2        \* largest old quantity of a line, in grams
MaxNewHalves == 5  \* largest new batch total, in half grams

Roundings == {"No rounding", "1 g", "0.1 g", "0.01 g"}

\* "round_step = 0.0 if rounding == "No rounding" else float(rounding.split()[0])"
round_step(sel) ==
    CASE sel = "No rounding" -> Zero
      [] sel = "1 g"         -> <<1, 1>>
      [] sel = "0.1 g"       -> <<1, 10>>
      [] sel = "0.01 g"      -> <<1, 100>>

\* faulty variant: a tie goes up
PyRoundHalfUp(x) ==
    LET fl == x[1] \div x[2]
        r  == x[1] % x[2]
    IN  IF 2 * r < x[2] THEN fl ELSE fl + 1

\* Python's round(x): the nearest integer, a tie going to the even one
PyRound(x) ==
    LET fl == x[1] \div x[2]
        r  == x[1] % x[2]
    IN  IF 2 * r < x[2] THEN fl
        ELSE IF 2 * r > x[2] THEN fl + 1
        ELSE IF fl % 2 = 0 THEN fl ELSE fl + 1

\* Python's round(x, 4)
PyRound4(x) == Norm(<<PyRound(RMul(x, Rat(10000))), 10000>>)

SeqSum(s) == RSum([k \in 1..Len(s) |-> Rat(s[k])])

\* "ratios = [x / total_g for x in old_g]"
Ratios(old, total) == [k \in 1..Len(old) |-> RDiv(Rat(old[k]), Rat(total))]

\* faulty variant: the new total is truncated to whole grams
RawOfTruncatedTotal(rs, new) ==
    [k \in 1..Len(rs) |-> RMul(rs[k], Rat(new[1] \div new[2]))]

\* "raw = [r * float(new_total) for r in ratios]"
Raw(rs, new) == [k \in 1..Len(rs) |-> RMul(rs[k], new)]

\* "final = [round(x / round_step) * round_step for x in raw]"
RoundToStep(x, step) == RMul(Rat(PyRound(RDiv(x, step))), step)

Rounded(raw, step) == [k \in 1..Len(raw) |-> RoundToStep(raw[k], step)]

\* "drift = float(new_total) - float(sum(final))"
Drift(new, rounded) == RSub(new, RSum(rounded))

\* faulty variant: the last index of the largest value
BiggestIdxLast(f) ==
    CHOOSE k \in 1..Len(f) :
        /\ \A j \in 1..Len(f) : RLe(f[j], f[k])
        /\ \A j \in (k + 1)..Len(f) : RLt(f[j], f[k])

\* "biggest_idx = int(max(range(len(final)), key=lambda k: final[k]))":
\* max() returns the first index whose value no other exceeds
BiggestIdx(f) ==
    CHOOSE k \in 1..Len(f) :
        /\ \A j \in 1..Len(f) : RLe(f[j], f[k])
        /\ \A j \in 1..(k - 1) : RLt(f[j], f[k])

\* faulty variant: the drift is not added back
DriftDropped(rounded, new) == rounded

\* "final[biggest_idx] += drift"
DriftCorrected(rounded, new) ==
    LET b == BiggestIdx(rounded)
    IN  [rounded EXCEPT ![b] = RAdd(@, Drift(new, rounded))]

\* the "rounding + drift correction" block
Final(raw, step, new) ==
    IF step = Zero THEN raw ELSE DriftCorrected(Rounded(raw, step), new)

total_g == SeqSum(old_g)

OldFormulas == UNION {[1..n -> 0..MaxOld] : n \in 1..MaxLines}

NewTotals == {Norm(<<m, 2>>) : m \in 0..MaxNewHalves}

InitScale ==
    /\ old_g \in OldFormulas
    /\ new_total \in NewTotals
    /\ typed_total = new_total
    /\ rounding \in Roundings
    /\ calc = "idle"
    /\ ratios = <<>>
    /\ final = <<>>
    /\ out_new_g = <<>>
    \* the Rework page, not used
    /\ rework_dict = <<>>
    /\ target_dict = <<>>
    /\ quanta_per_gram = 1
    /\ limits_done = FALSE
    /\ max_f = Inf
    /\ limiting = None
    /\ limits_df = {}
    /\ planned = FALSE
    /\ reuse_fraction = Zero
    /\ plan_df = <<>>
    /\ mode = "Auto (max safe)"
    /\ manual_pct = Rat(80)
    /\ rw_calc = "idle"
    /\ reuse_pct = None
    \* the Inventory and Feasibility pages, not used
    /\ ledger = <<>>
    /\ receipt_cart = <<>>
    /\ issue_cart = <<>>
    /\ bom_rows = <<>>
    /\ units = Rat(1)
    /\ weight_per_unit_lb = NoTarget
    /\ location_code = "AWLMIX"
    /\ uom = "LB"
    /\ feas_calc = "idle"
    /\ uom_notice = FALSE
    /\ feas_rows = <<>>
    \* the Production Batch page and the seeded tables, not used
    /\ pb_table = "present"
    /\ batches = <<>>
    /\ user = <<>>
    /\ batch_number = <<>>
    /\ qty_units = 0
    /\ pb_msg = "none"
    /\ LocationsTable = <<"AWLMIX", "CENTRAL", "F_WAREHOUSE">>
    /\ MaterialMaster = <<>>
    /\ csv_rows = <<>>
    /\ app_runs = 1

\* faulty variant: a total of up to one gram is rejected too
RejectsUpToOneGram(total) == RLe(total, Rat(1))

\* "if total_g <= 0"
TotalRejected(total) == RLe(total, Zero)

\* "if total_g <= 0: st.error(...); st.stop()"
CalculateBatchRejected ==
    /\ TotalRejected(total_g)
    /\ calc' = "error"
    /\ UNCHANGED <<old_g, new_total, typed_total, rounding, ratios, final,
                   out_new_g, rework_vars, db_vars, feas_vars,
                   batch_vars, seed_vars>>

CalculateBatchDone ==
    /\ ~TotalRejected(total_g)
    /\ LET rs == Ratios(old_g, total_g[1])
           fin == Final(Raw(rs, new_total), round_step(rounding), new_total)
       IN  /\ ratios' = rs
           /\ final' = fin
           /\ out_new_g' = [k \in 1..Len(fin) |-> PyRound4(fin[k])]
    /\ calc' = "done"
    /\ UNCHANGED <<old_g, new_total, typed_total, rounding, rework_vars,
                   db_vars, feas_vars, batch_vars, seed_vars>>

\* the "Calculate batch" button
CalculateBatch == CalculateBatchRejected \/ CalculateBatchDone

(***************************************************************************)
(* new_batch.py: the "New batch total (g)" field                           *)
(***************************************************************************)
EntryLines == 2    \* largest number of lines of a formula, when the total is typed

\* faulty variant: the field has no minimum
NumberInputNoMin(cur, v) == {v}

\* st.number_input(..., min_value=0.0): the values the field may hold after
\* the user typed v into it while it held cur.  A value below the minimum is
\* not taken: the field keeps its value, or falls back to the minimum.
NumberInput(cur, v) == IF RLt(v, Zero) THEN {cur, Zero} ELSE {v}

\* "default_new_total = ... (total_g if total_g > 0 else 0.0)", no reference
\* target being selected
default_new_total(total) == IF RLt(Zero, total) THEN total ELSE Zero

EntryFormulas == {f \in OldFormulas : Len(f) <= EntryLines}

\* what the user may type: a total, or a negative number
TypedTotals == NewTotals \cup {RSub(Zero, t) : t \in NewTotals}

InitScaleEntry ==
    /\ old_g \in EntryFormulas
    /\ new_total = default_new_total(SeqSum(old_g))
    /\ typed_total = new_total
    /\ rounding \in Roundings
    /\ calc = "idle"
    /\ ratios = <<>>
    /\ final = <<>>
    /\ out_new_g = <<>>
    \* the Rework page, not used
    /\ rework_dict = <<>>
    /\ target_dict = <<>>
    /\ quanta_per_gram = 1
    /\ limits_done = FALSE
    /\ max_f = Inf
    /\ limiting = None
    /\ limits_df = {}
    /\ planned = FALSE
    /\ reuse_fraction = Zero
    /\ plan_df = <<>>
    /\ mode = "Auto (max safe)"
    /\ manual_pct = Rat(80)
    /\ rw_calc = "idle"
    /\ reuse_pct = None
    \* the Inventory and Feasibility pages, not used
    /\ ledger = <<>>
    /\ receipt_cart = <<>>
    /\ issue_cart = <<>>
    /\ bom_rows = <<>>
    /\ units = Rat(1)
    /\ weight_per_unit_lb = NoTarget
    /\ location_code = "AWLMIX"
    /\ uom = "LB"
    /\ feas_calc = "idle"
    /\ uom_notice = FALSE
    /\ feas_rows = <<>>
    \* the Production Batch page and the seeded tables, not used
    /\ pb_table = "present"
    /\ batches = <<>>
    /\ user = <<>>
    /\ batch_number = <<>>
    /\ qty_units = 0
    /\ pb_msg = "none"
    /\ LocationsTable = <<"AWLMIX", "CENTRAL", "F_WAREHOUSE">>
    /\ MaterialMaster = <<>>
    /\ csv_rows = <<>>
    /\ app_runs = 1

\* the user types v into the field; the script reruns with the button not
\* pressed, so the results of an earlier press are no longer shown
EnterNewTotal ==
    \E v \in TypedTotals :
        /\ typed_total' = v
        /\ new_total' \in NumberInput(new_total, v)
        /\ calc' = "idle"
        /\ ratios' = <<>>
        /\ final' = <<>>
        /\ out_new_g' = <<>>
        /\ UNCHANGED <<old_g, rounding, rework_vars, db_vars, feas_vars,
                       batch_vars, seed_vars>>

(***************************************************************************)
(* db.py: the inventory ledger (table InventoryTxn)                        *)
(*                                                                         *)
(* A row is modelled by the columns the on-hand queries read: the material *)
(* and location (by their codes, which the joins of the queries look up),  *)
(* the transaction type, the signed quantity and the unit.                 *)
(***************************************************************************)
MaxTxns == 2       \* largest number of ledger rows and cart lines together

Materials == {"A", "B"}              \* MaterialMaster
Locations == {"AWLMIX", "CENTRAL"}   \* two of the locations init_db inserts
UOMs == {"LB", "KG"}                 \* two of the units of the select boxes

\* the quantities typed into "Quantity Received" / "Quantity Issued"
LedgerQtys == {Rat(1), <<1, 25000>>}

\* a row of InventoryTxn
TxnRow(material, location, txn_type, qty, unit) ==
    [MaterialCode |-> material, LocationCode |-> location,
     TxnType |-> txn_type, Qty |-> qty, UOM |-> unit]

\* faulty variant: the new row takes the place of the last one
add_txn_overwriting(l, material, location, txn_type, qty, unit) ==
    IF l = <<>> THEN <<TxnRow(material, location, txn_type, qty, unit)>>
    ELSE [l EXCEPT ![Len(l)] = TxnRow(material, location, txn_type, qty, unit)]

\* add_txn: "INSERT INTO InventoryTxn ... VALUES (...)"
add_txn(l, material, location, txn_type, qty, unit) ==
    Append(l, TxnRow(material, location, txn_type, qty, unit))

\* faulty variant: the quantities are added without their sign
SumQtyUnsigned(rows) ==
    RSum([k \in 1..Len(rows) |-> <<Abs(rows[k].Qty[1]), rows[k].Qty[2]>>])

\* "SUM(t.Qty)" over the rows of a group
SumQty(rows) == RSum([k \in 1..Len(rows) |-> rows[k].Qty])

\* x * 10000, cancelled first to keep the intermediate numbers small
Times10000(x) ==
    LET g == GCD(10000, x[2])
    IN  Norm(<<x[1] * (10000 \div g), x[2] \div g>>)

\* SQLite's ROUND(x, 4): to 4 decimals, a tie going away from zero
SqlRound4(x) ==
    LET a == Times10000(<<Abs(x[1]), x[2]>>)
        q == (2 * a[1] + a[2]) \div (2 * a[2])
    IN  Norm(<<(IF x[1] < 0 THEN 0 - q ELSE q), 10000>>)

\* the rows of a (material, location, unit) group
GroupRows(l, m, loc, u) ==
    SelectSeq(l, LAMBDA t : t.MaterialCode = m /\ t.LocationCode = loc /\ t.UOM = u)

\* get_on_hand: one row per group of the ledger, "HAVING SUM(t.Qty) <> 0"
get_on_hand(l) ==
    {[MaterialCode |-> k[1], LocationCode |-> k[2], UOM |-> k[3],
      OnHand |-> SqlRound4(SumQty(GroupRows(l, k[1], k[2], k[3])))] :
        k \in {g \in Materials \X Locations \X UOMs :
                  /\ GroupRows(l, g[1], g[2], g[3]) # <<>>
                  /\ SumQty(GroupRows(l, g[1], g[2], g[3])) # Zero}}

\* faulty variant: the rows of every unit are added up
get_on_hand_any_unit(l, loc, u) ==
    [m \in {k \in Materials : \E v \in UOMs : GroupRows(l, k, loc, v) # <<>>} |->
        SqlRound4(SumQty(SelectSeq(l, LAMBDA t :
            t.MaterialCode = m /\ t.LocationCode = loc)))]

\* get_on_hand_by_location: MaterialCode -> OnHand, for the rows
\* "WHERE l.LocationCode = ? AND t.UOM = ?", grouped by material
get_on_hand_by_location(l, loc, u) ==
    [m \in {k \in Materials : GroupRows(l, k, loc, u) # <<>>} |->
        SqlRound4(SumQty(GroupRows(l, m, loc, u)))]

(***************************************************************************)
(* inventory.py: the receive and issue lists                               *)
(***************************************************************************)
\* a line of a cart, as far as posting it reads it
CartLines(qtys) ==
    [MaterialCode : Materials, LocationCode : Locations, Qty : qtys, UOM : UOMs]

Room == Len(ledger) + Len(receipt_cart) + Len(issue_cart) < MaxTxns

InitLedger ==
    /\ ledger = <<>>
    /\ receipt_cart = <<>>
    /\ issue_cart = <<>>
    \* the Feasibility page, not used
    /\ bom_rows = <<>>
    /\ units = Rat(1)
    /\ weight_per_unit_lb = NoTarget
    /\ location_code = "AWLMIX"
    /\ uom = "LB"
    /\ feas_calc = "idle"
    /\ uom_notice = FALSE
    /\ feas_rows = <<>>
    \* the Rework page, not used
    /\ rework_dict = <<>>
    /\ target_dict = <<>>
    /\ quanta_per_gram = 1
    /\ limits_done = FALSE
    /\ max_f = Inf
    /\ limiting = None
    /\ limits_df = {}
    /\ planned = FALSE
    /\ reuse_fraction = Zero
    /\ plan_df = <<>>
    /\ mode = "Auto (max safe)"
    /\ manual_pct = Rat(80)
    /\ rw_calc = "idle"
    /\ reuse_pct = None
    \* the New Batch page, not used
    /\ old_g = <<0>>
    /\ new_total = Zero
    /\ typed_total = Zero
    /\ rounding = "1 g"
    /\ calc = "idle"
    /\ ratios = <<>>
    /\ final = <<>>
    /\ out_new_g = <<>>
    \* the Production Batch page and the seeded tables, not used
    /\ pb_table = "present"
    /\ batches = <<>>
    /\ user = <<>>
    /\ batch_number = <<>>
    /\ qty_units = 0
    /\ pb_msg = "none"
    /\ LocationsTable = <<"AWLMIX", "CENTRAL", "F_WAREHOUSE">>
    /\ MaterialMaster = <<>>
    /\ csv_rows = <<>>
    /\ app_runs = 1

\* "Add line to receive list": "if qty_r <= 0: st.error(...)", else the line
\* is appended to the cart
AddReceiptLine ==
    \E line \in CartLines(LedgerQtys \cup {Zero}) :
        /\ Room
        /\ receipt_cart' = IF RLe(line.Qty, Zero) THEN receipt_cart
                           ELSE Append(receipt_cart, line)
        /\ UNCHANGED <<ledger, issue_cart, feas_vars, rework_vars, scale_vars,
                       batch_vars, seed_vars>>

\* "Clear receive list"
ClearReceiptList ==
    /\ receipt_cart' = <<>>
    /\ UNCHANGED <<ledger, issue_cart, feas_vars, rework_vars, scale_vars,
                   batch_vars, seed_vars>>

\* faulty variant: only the first line of the cart is posted
PostFirstLine(l, cart, txn_type, sign) ==
    IF cart = <<>> THEN l
    ELSE add_txn(l, Head(cart).MaterialCode, Head(cart).LocationCode,
                 txn_type, RMul(Rat(sign), Head(cart).Qty), Head(cart).UOM)

\* the "for line in cart: add_txn(...)" loop of a post
RECURSIVE PostLines(_, _, _, _)
PostLines(l, cart, txn_type, sign) ==
    IF cart = <<>> THEN l
    ELSE PostLines(add_txn(l, Head(cart).MaterialCode, Head(cart).LocationCode,
                           txn_type, RMul(Rat(sign), Head(cart).Qty),
                           Head(cart).UOM),
                   Tail(cart), txn_type, sign)

\* "Post Receipt (ALL lines)"; the button is drawn when the cart has lines
PostReceipt ==
    /\ receipt_cart # <<>>
    /\ ledger' = PostLines(ledger, receipt_cart, "RECEIPT", 1)
    /\ receipt_cart' = <<>>
    /\ UNCHANGED <<issue_cart, feas_vars, rework_vars, scale_vars,
                   batch_vars, seed_vars>>

\* "st.session_state.issue_cart.append({...})": as the page is written, the
\* test of qty2 only guards a message and the line is appended whatever the
\* quantity (the field keeps it >= 0)
AddIssueLine ==
    \E line \in CartLines(LedgerQtys \cup {Zero}) :
        /\ Room
        /\ issue_cart' = Append(issue_cart, line)
        /\ UNCHANGED <<ledger, receipt_cart, feas_vars, rework_vars, scale_vars,
                       batch_vars, seed_vars>>

\* "Clear list"
ClearIssueList ==
    /\ issue_cart' = <<>>
    /\ UNCHANGED <<ledger, receipt_cart, feas_vars, rework_vars, scale_vars,
                   batch_vars, seed_vars>>

\* "Post Issue (ALL lines)": each line is posted with the quantity negated
PostIssue ==
    /\ issue_cart # <<>>
    /\ ledger' = PostLines(ledger, issue_cart, "ISSUE", 0 - 1)
    /\ issue_cart' = <<>>
    /\ UNCHANGED <<receipt_cart, feas_vars, rework_vars, scale_vars,
                   batch_vars, seed_vars>>

(***************************************************************************)
(* feasibility.py: one run of the Feasibility page                         *)
(*                                                                         *)
(* The page has no button: every run of the script computes the table.     *)
(* The BOM rows are those of the selected product, with numeric percents.  *)
(***************************************************************************)
MaxBomRows == 2    \* largest number of BOM rows of the selected product

\* the percentages of the BOM rows
Pcts == {Rat(30), Rat(70), <<33333, 1000>>}

BOMs == UNION {[1..n -> [MaterialKey : Materials, Pct : Pcts]] : n \in 0..MaxBomRows}

\* "Units to make" and the weight target of the product
RunSizes == {<<Rat(1), Rat(1)>>, <<Rat(1000), Rat(1)>>, <<Rat(2), <<1, 2>>>>,
             <<Rat(1), NoTarget>>}

\* the ledgers the page is run against: at most one receipt of A and one of B
FeasQtys == {Rat(400), Rat(500), <<3333, 10000>>}
FeasPlaces == {<<"AWLMIX", "LB">>, <<"CENTRAL", "LB">>, <<"AWLMIX", "KG">>}

ReceiptsOf(m, qtys) ==
    {<<>>} \cup {<<TxnRow(m, p[1], "RECEIPT", q, p[2])>> : q \in qtys, p \in FeasPlaces}

FeasLedgers ==
    {a \o b : a \in ReceiptsOf("A", FeasQtys), b \in ReceiptsOf("B", {Rat(400)})}

\* "total_weight_lb = units * weight_per_unit_lb"
total_weight_lb(u, w) == RMul(u, w)

\* "RequiredLB = total_weight_lb * (__pct / 100.0)"
RequiredLB(total, pct) == RMul(total, RDiv(pct, Rat(100)))

\* "required_df = ...groupby("MaterialKey", as_index=False).sum()"
required_df(rows, total) ==
    [m \in {rows[k].MaterialKey : k \in 1..Len(rows)} |->
        LET mine == SelectSeq(rows, LAMBDA r : r.MaterialKey = m)
        IN  RSum([k \in 1..Len(mine) |-> RequiredLB(total, mine[k].Pct)])]

\* pandas' round(4): to 4 decimals, a tie going to the even digit
Round4(x) == Norm(<<PyRound(Times10000(x)), 10000>>)

\* faulty variant: a surplus is shown as a shortage of 0
ShortageClamped(required, on_hand) ==
    IF RLt(RSub(required, on_hand), Zero) THEN Zero
    ELSE Round4(RSub(required, on_hand))

\* "Shortage = (RequiredLB - OnHand).round(4)"
Shortage(required, on_hand) == Round4(RSub(required, on_hand))

\* "Status = "FAIL" if x > 0 else "PASS""
Status(x) == IF RLt(Zero, x) THEN "FAIL" ELSE "PASS"

\* the left merge of required_df with onhand_df, "OnHand.fillna(0.0)", and the
\* Shortage and Status columns
FeasibilityRows(rows, total, onhand_df) ==
    LET req == required_df(rows, total)
    IN  [m \in DOMAIN req |->
            LET on_hand == IF m \in DOMAIN onhand_df THEN onhand_df[m] ELSE Zero
                short   == Shortage(req[m], on_hand)
            IN  [RequiredLB |-> req[m], OnHand |-> on_hand,
                 Shortage |-> short, Status |-> Status(short)]]

\* faulty variant: reading the on-hand empties the table
TableEmptiedBySelect(l) == <<>>

\* InventoryTxn after get_on_hand_by_location: the function runs one SELECT
\* and closes the connection
TableAfterSelect(l) == l

InitFeas ==
    /\ bom_rows \in BOMs
    /\ \E size \in RunSizes : units = size[1] /\ weight_per_unit_lb = size[2]
    /\ location_code \in Locations
    /\ uom \in UOMs
    /\ ledger \in FeasLedgers
    /\ feas_calc = "idle"
    /\ uom_notice = FALSE
    /\ feas_rows = <<>>
    /\ receipt_cart = <<>>
    /\ issue_cart = <<>>
    \* the Rework page, not used
    /\ rework_dict = <<>>
    /\ target_dict = <<>>
    /\ quanta_per_gram = 1
    /\ limits_done = FALSE
    /\ max_f = Inf
    /\ limiting = None
    /\ limits_df = {}
    /\ planned = FALSE
    /\ reuse_fraction = Zero
    /\ plan_df = <<>>
    /\ mode = "Auto (max safe)"
    /\ manual_pct = Rat(80)
    /\ rw_calc = "idle"
    /\ reuse_pct = None
    \* the New Batch page, not used
    /\ old_g = <<0>>
    /\ new_total = Zero
    /\ typed_total = Zero
    /\ rounding = "1 g"
    /\ calc = "idle"
    /\ ratios = <<>>
    /\ final = <<>>
    /\ out_new_g = <<>>
    \* the Production Batch page and the seeded tables, not used
    /\ pb_table = "present"
    /\ batches = <<>>
    /\ user = <<>>
    /\ batch_number = <<>>
    /\ qty_units = 0
    /\ pb_msg = "none"
    /\ LocationsTable = <<"AWLMIX", "CENTRAL", "F_WAREHOUSE">>
    /\ MaterialMaster = <<>>
    /\ csv_rows = <<>>
    /\ app_runs = 1

\* "if wt_match.empty: st.warning(...); st.stop()"
CheckFeasibilityNoWeight ==
    /\ feas_calc = "idle"
    /\ weight_per_unit_lb = NoTarget
    /\ feas_calc' = "stopped"
    /\ UNCHANGED <<bom_rows, units, weight_per_unit_lb, location_code, uom,
                   uom_notice, feas_rows, db_vars, rework_vars, scale_vars,
                   batch_vars, seed_vars>>

\* "if bom_rows.empty: st.error(...); st.stop()"
CheckFeasibilityNoBom ==
    /\ feas_calc = "idle"
    /\ weight_per_unit_lb # NoTarget
    /\ bom_rows = <<>>
    /\ uom_notice' = (uom # "LB")
    /\ feas_calc' = "stopped"
    /\ UNCHANGED <<bom_rows, units, weight_per_unit_lb, location_code, uom,
                   feas_rows, db_vars, rework_vars, scale_vars,
                   batch_vars, seed_vars>>

CheckFeasibilityDone ==
    /\ feas_calc = "idle"
    /\ weight_per_unit_lb # NoTarget
    /\ bom_rows # <<>>
    /\ uom_notice' = (uom # "LB")
    /\ feas_rows' = FeasibilityRows(bom_rows,
                                    total_weight_lb(units, weight_per_unit_lb),
                                    get_on_hand_by_location(ledger, location_code, uom))
    /\ ledger' = TableAfterSelect(ledger)
    /\ feas_calc' = "done"
    /\ UNCHANGED <<bom_rows, units, weight_per_unit_lb, location_code, uom,
                   receipt_cart, issue_cart, rework_vars, scale_vars,
                   batch_vars, seed_vars>>

\* a run of the Feasibility page
CheckFeasibility ==
    CheckFeasibilityNoWeight \/ CheckFeasibilityNoBom \/ CheckFeasibilityDone

(***************************************************************************)
(* The core computations side by side: the rework planner, the ratio       *)
(* scaler and the feasibility check, each on inputs of its own page and    *)
(* all against one inventory ledger.                                       *)
(***************************************************************************)
CoreFormulas == {d \in Dicts : DOMAIN d = {"A", "B"}}

ExampleBom == <<[MaterialKey |-> "A", Pct |-> Rat(70)],
                [MaterialKey |-> "B", Pct |-> Rat(30)]>>

ExampleLedger == <<TxnRow("A", "AWLMIX", "RECEIPT", Rat(500), "LB"),
                   TxnRow("B", "AWLMIX", "RECEIPT", Rat(400), "LB")>>

InitCore ==
    /\ \/ /\ rework_dict \in CoreFormulas
          /\ target_dict \in {d \in CoreFormulas : d["A"] = MaxQty}
       \/ /\ rework_dict = ExampleRework
          /\ target_dict = ExampleTarget
    /\ quanta_per_gram = 1
    /\ limits_done = FALSE
    /\ max_f = Inf
    /\ limiting = None
    /\ limits_df = {}
    /\ planned = FALSE
    /\ reuse_fraction = Zero
    /\ plan_df = <<>>
    /\ mode = "Auto (max safe)"
    /\ manual_pct = Rat(80)
    /\ rw_calc = "idle"
    /\ reuse_pct = None
    /\ old_g \in {<<0, 0>>, <<1, 2>>}
    /\ new_total = <<5, 2>>
    /\ typed_total = new_total
    /\ rounding = "1 g"
    /\ calc = "idle"
    /\ ratios = <<>>
    /\ final = <<>>
    /\ out_new_g = <<>>
    /\ ledger \in {<<>>, ExampleLedger}
    /\ receipt_cart = <<>>
    /\ issue_cart = <<>>
    /\ bom_rows \in {<<>>, ExampleBom}
    /\ units = Rat(1000)
    /\ weight_per_unit_lb \in {NoTarget, Rat(1)}
    /\ location_code = "AWLMIX"
    /\ uom = "LB"
    /\ feas_calc = "idle"
    /\ uom_notice = FALSE
    /\ feas_rows = <<>>
    \* the Production Batch page and the seeded tables, not used
    /\ pb_table = "present"
    /\ batches = <<>>
    /\ user = <<>>
    /\ batch_number = <<>>
    /\ qty_units = 0
    /\ pb_msg = "none"
    /\ LocationsTable = <<"AWLMIX", "CENTRAL", "F_WAREHOUSE">>
    /\ MaterialMaster = <<>>
    /\ csv_rows = <<>>
    /\ app_runs = 1

(***************************************************************************)
(* production_batch.py: the Production Batch page                          *)
(*                                                                         *)
(* Text fields hold sequences of characters, so that strip() is computed.  *)
(* A row of ProductionBatch is modelled by the columns the page decides    *)
(* on; its BatchID is its position, rows are never deleted.  The page      *)
(* defines ensure_production_batch_table and never calls it: the table is  *)
(* there only if the database file already has it (pb_table).              *)
(***************************************************************************)
MaxBatches == 3    \* largest number of rows of ProductionBatch

Blank == " "

\* "STATUSES = list(STATUS_TO_PROGRESS.keys())"
STATUSES == <<"PRE-BATCH", "MAKING", "QC", "LABELING & PACKING", "READY TO SHIP">>

STATUS_TO_PROGRESS(status) ==
    CASE status = "PRE-BATCH"          -> 25
      [] status = "MAKING"             -> 50
      [] status = "QC"                 -> 75
      [] status = "LABELING & PACKING" -> 90
      [] status = "READY TO SHIP"      -> 100

\* what is typed into "Your name", "Batch Number" and "Qty (Units)"
UserNames == {<<>>, <<Blank>>, <<"m">>, <<Blank, "m">>}
BatchNumbers == {<<>>, <<Blank>>, <<"1">>, <<"1", Blank>>, <<Blank, "1">>, <<"2">>}
QtyUnitsTyped == {0, 1}

\* str.strip()
RECURSIVE LStrip(_)
LStrip(s) == IF s # <<>> /\ Head(s) = Blank THEN LStrip(Tail(s)) ELSE s

RECURSIVE RStrip(_)
RStrip(s) ==
    IF s # <<>> /\ s[Len(s)] = Blank THEN RStrip(SubSeq(s, 1, Len(s) - 1)) ELSE s

Strip(s) == RStrip(LStrip(s))

\* faulty variant: only a negative quantity is refused
QtyRejectedNegativeOnly(q) == q < 0

\* "elif qty_units <= 0"
QtyRejected(q) == q <= 0

\* the checks of "Create Batch" before the insert
CreateRejected(u, n, q) == Strip(u) = <<>> \/ Strip(n) = <<>> \/ QtyRejected(q)

\* "record = {...}"
Record(u, n, q) ==
    [BatchNumber |-> Strip(n), QtyUnits |-> q, Status |-> "PRE-BATCH",
     CreatedBy |-> Strip(u), UpdatedBy |-> Strip(u)]

\* faulty variant: the column has no UNIQUE constraint
NoUniqueConstraint(rows, number) == FALSE

\* "BatchNumber TEXT UNIQUE": the insert of a row with this number fails
ViolatesUnique(rows, number) == \E k \in 1..Len(rows) : rows[k].BatchNumber = number

\* insert_batch raises: the table is missing or the number is taken
InsertFails(table, rows, record) ==
    table = "missing" \/ ViolatesUnique(rows, record.BatchNumber)

\* insert_batch: "INSERT INTO ProductionBatch ... VALUES (...)"
insert_batch(rows, record) == Append(rows, record)

\* update_batch_status: "UPDATE ProductionBatch SET Status = ?, ...,
\* UpdatedBy = ? WHERE BatchID = ?"
update_batch_status(rows, batch_id, new_status, by) ==
    [rows EXCEPT ![batch_id] = [@ EXCEPT !.Status = new_status, !.UpdatedBy = by]]

InitBatch ==
    /\ pb_table \in {"present", "missing"}
    /\ batches = <<>>
    /\ user = <<>>
    /\ batch_number = <<>>
    /\ qty_units = 0
    /\ pb_msg = "none"
    /\ LocationsTable = <<"AWLMIX", "CENTRAL", "F_WAREHOUSE">>
    /\ MaterialMaster = <<>>
    /\ csv_rows = <<>>
    /\ app_runs = 1
    \* the inventory and the Feasibility page, not used
    /\ ledger = <<>>
    /\ receipt_cart = <<>>
    /\ issue_cart = <<>>
    /\ bom_rows = <<>>
    /\ units = Rat(1)
    /\ weight_per_unit_lb = NoTarget
    /\ location_code = "AWLMIX"
    /\ uom = "LB"
    /\ feas_calc = "idle"
    /\ uom_notice = FALSE
    /\ feas_rows = <<>>
    \* the Rework page, not used
    /\ rework_dict = <<>>
    /\ target_dict = <<>>
    /\ quanta_per_gram = 1
    /\ limits_done = FALSE
    /\ max_f = Inf
    /\ limiting = None
    /\ limits_df = {}
    /\ planned = FALSE
    /\ reuse_fraction = Zero
    /\ plan_df = <<>>
    /\ mode = "Auto (max safe)"
    /\ manual_pct = Rat(80)
    /\ rw_calc = "idle"
    /\ reuse_pct = None
    \* the New Batch page, not used
    /\ old_g = <<0>>
    /\ new_total = Zero
    /\ typed_total = Zero
    /\ rounding = "1 g"
    /\ calc = "idle"
    /\ ratios = <<>>
    /\ final = <<>>
    /\ out_new_g = <<>>

\* "Create Batch" with a check failing: one st.error, nothing inserted
CreateBatchInvalid ==
    \E u \in UserNames, n \in BatchNumbers, q \in QtyUnitsTyped :
        /\ CreateRejected(u, n, q)
        /\ user' = u /\ batch_number' = n /\ qty_units' = q
        /\ pb_msg' = IF Strip(u) = <<>> THEN "Enter your name."
                     ELSE IF Strip(n) = <<>> THEN "Enter a Batch Number."
                     ELSE "Qty (Units) must be greater than 0."
        /\ UNCHANGED <<pb_table, batches, seed_vars, db_vars, feas_vars,
                       rework_vars, scale_vars>>

\* "except Exception as e: st.error(...)": insert_batch raised
CreateBatchFailed ==
    \E u \in UserNames, n \in BatchNumbers, q \in QtyUnitsTyped :
        /\ ~CreateRejected(u, n, q)
        /\ InsertFails(pb_table, batches, Record(u, n, q))
        /\ user' = u /\ batch_number' = n /\ qty_units' = q
        /\ pb_msg' = "Could not create batch (duplicate BatchNumber?)"
        /\ UNCHANGED <<pb_table, batches, seed_vars, db_vars, feas_vars,
                       rework_vars, scale_vars>>

\* "insert_batch(record); st.success(...); st.rerun()"
CreateBatchDone ==
    \E u \in UserNames, n \in BatchNumbers, q \in QtyUnitsTyped :
        /\ Len(batches) < MaxBatches
        /\ ~CreateRejected(u, n, q)
        /\ ~InsertFails(pb_table, batches, Record(u, n, q))
        /\ user' = u /\ batch_number' = n /\ qty_units' = q
        /\ batches' = insert_batch(batches, Record(u, n, q))
        /\ pb_msg' = "Batch created -> PRE-BATCH (25%)."
        /\ UNCHANGED <<pb_table, seed_vars, db_vars, feas_vars, rework_vars,
                       scale_vars>>

\* the "Create Batch" button
CreateBatch == CreateBatchInvalid \/ CreateBatchFailed \/ CreateBatchDone

\* "Save Stage" without a name; the button is drawn when there is a batch
SaveStageNoName ==
    \E u \in UserNames :
        /\ pb_table = "present"
        /\ batches # <<>>
        /\ Strip(u) = <<>>
        /\ user' = u
        /\ pb_msg' = "Enter your name (top of page)."
        /\ UNCHANGED <<pb_table, batches, batch_number, qty_units, seed_vars,
                       db_vars, feas_vars, rework_vars, scale_vars>>

\* "update_batch_status(int(batch_id), new_status, user.strip())": any batch
\* of the list, any stage of the select box
SaveStageDone ==
    \E u \in UserNames, batch_id \in 1..Len(batches),
       k \in 1..Len(STATUSES) :
        /\ pb_table = "present"
        /\ Strip(u) # <<>>
        /\ user' = u
        /\ batches' = update_batch_status(batches, batch_id, STATUSES[k], Strip(u))
        /\ pb_msg' = "Updated"
        /\ UNCHANGED <<pb_table, batch_number, qty_units, seed_vars, db_vars,
                       feas_vars, rework_vars, scale_vars>>

\* the "Save Stage" button
SaveStage == SaveStageNoName \/ SaveStageDone

(***************************************************************************)
(* db.py: init_db and load_materials_from_csv, which the main script runs  *)
(* each time it runs.  A table is the sequence of its rows by id.          *)
(***************************************************************************)
MaxRuns == 3       \* largest number of runs of the main script
MaxCsvRows == 2    \* largest number of rows of MaterialMaster.csv

\* "for loc in ["AWLMIX", "CENTRAL", "F_WAREHOUSE"]"
SeedLocations == <<"AWLMIX", "CENTRAL", "F_WAREHOUSE">>

\* an empty MaterialCode cell: read_csv gives NaN, which sqlite3 binds as NULL
NoCode == "NULL"

CsvCodes == {"A", "B", NoCode}
CsvNames == {"a", "b"}

\* the contents of MaterialMaster.csv
CsvFiles ==
    UNION {[1..n -> [MaterialCode : CsvCodes, MaterialName : CsvNames]] :
               n \in 0..MaxCsvRows}

\* "INSERT OR IGNORE INTO Locations(LocationCode) VALUES (?)", LocationCode
\* being UNIQUE
InsertLocation(tbl, code) ==
    IF \E k \in 1..Len(tbl) : tbl[k] = code THEN tbl ELSE Append(tbl, code)

RECURSIVE InsertLocations(_, _)
InsertLocations(tbl, codes) ==
    IF codes = <<>> THEN tbl
    ELSE InsertLocations(InsertLocation(tbl, Head(codes)), Tail(codes))

\* init_db: the tables are created if missing, the locations inserted
init_db(tbl) == InsertLocations(tbl, SeedLocations)

\* "INSERT OR IGNORE INTO MaterialMaster (MaterialCode, MaterialName)",
\* MaterialCode being UNIQUE: a NULL conflicts with nothing
InsertMaterial(tbl, r) ==
    IF /\ r.MaterialCode # NoCode
       /\ \E k \in 1..Len(tbl) : tbl[k].MaterialCode = r.MaterialCode
    THEN tbl
    ELSE Append(tbl, r)

\* load_materials_from_csv: "for _, r in df.iterrows()"
RECURSIVE load_materials_from_csv(_, _)
load_materials_from_csv(tbl, df) ==
    IF df = <<>> THEN tbl
    ELSE load_materials_from_csv(InsertMaterial(tbl, Head(df)), Tail(df))

\* the database before the first run: a new file, or one in use
InitSeed ==
    /\ \/ /\ LocationsTable = <<>>
          /\ MaterialMaster = <<>>
          /\ ledger = <<>>
       \/ /\ LocationsTable = <<"CENTRAL", "AWLMIX", "F_WAREHOUSE">>
          /\ MaterialMaster = <<[MaterialCode |-> "A", MaterialName |-> "a"],
                                [MaterialCode |-> "B", MaterialName |-> "b"]>>
          /\ ledger = ExampleLedger
    /\ csv_rows \in CsvFiles
    /\ app_runs = 0
    /\ receipt_cart = <<>>
    /\ issue_cart = <<>>
    \* the Production Batch page, not used
    /\ pb_table = "present"
    /\ batches = <<>>
    /\ user = <<>>
    /\ batch_number = <<>>
    /\ qty_units = 0
    /\ pb_msg = "none"
    \* the Feasibility page, not used
    /\ bom_rows = <<>>
    /\ units = Rat(1)
    /\ weight_per_unit_lb = NoTarget
    /\ location_code = "AWLMIX"
    /\ uom = "LB"
    /\ feas_calc = "idle"
    /\ uom_notice = FALSE
    /\ feas_rows = <<>>
    \* the Rework page, not used
    /\ rework_dict = <<>>
    /\ target_dict = <<>>
    /\ quanta_per_gram = 1
    /\ limits_done = FALSE
    /\ max_f = Inf
    /\ limiting = None
    /\ limits_df = {}
    /\ planned = FALSE
    /\ reuse_fraction = Zero
    /\ plan_df = <<>>
    /\ mode = "Auto (max safe)"
    /\ manual_pct = Rat(80)
    /\ rw_calc = "idle"
    /\ reuse_pct = None
    \* the New Batch page, not used
    /\ old_g = <<0>>
    /\ new_total = Zero
    /\ typed_total = Zero
    /\ rounding = "1 g"
    /\ calc = "idle"
    /\ ratios = <<>>
    /\ final = <<>>
    /\ out_new_g = <<>>

\* a run of dynamic_batch_calculator.py: "init_db()" and
\* "load_materials_from_csv()"
AppStart ==
    /\ app_runs < MaxRuns
    /\ LocationsTable' = init_db(LocationsTable)
    /\ MaterialMaster' = load_materials_from_csv(MaterialMaster, csv_rows)
    /\ app_runs' = app_runs + 1
    /\ UNCHANGED <<csv_rows, db_vars, batch_vars, feas_vars, rework_vars,
                   scale_vars>>

(***************************************************************************)
(* Specifications: one per page of the application.  The pages share no    *)
(* state; the page a specification is not about stays as it starts.        *)
(***************************************************************************)
vars == <<rework_vars, scale_vars, db_vars, feas_vars, batch_vars, seed_vars>>

NextRework == ComputeMaxSafeFraction \/ ComputePlan \/ ComputePlanAtMaxSafe

SpecRework == InitRework /\ [][NextRework]_vars

NextReworkPage == CalculateReworkPlan

SpecReworkPage == InitReworkPage /\ [][NextReworkPage]_vars

NextScale == CalculateBatch

SpecScale == InitScale /\ [][NextScale]_vars

NextScaleEntry == EnterNewTotal \/ CalculateBatch

SpecScaleEntry == InitScaleEntry /\ [][NextScaleEntry]_vars

NextLedger ==
    \/ AddReceiptLine
    \/ ClearReceiptList
    \/ PostReceipt
    \/ AddIssueLine
    \/ ClearIssueList
    \/ PostIssue

SpecLedger == InitLedger /\ [][NextLedger]_vars

NextFeas == CheckFeasibility

SpecFeas == InitFeas /\ [][NextFeas]_vars

NextCore ==
    \/ ComputeMaxSafeFraction
    \/ ComputePlan
    \/ ComputePlanAtMaxSafe
    \/ CalculateBatch
    \/ CheckFeasibility

SpecCore == InitCore /\ [][NextCore]_vars

NextBatch == CreateBatch \/ SaveStage

SpecBatch == InitBatch /\ [][NextBatch]_vars

NextSeed == AppStart

SpecSeed == InitSeed /\ [][NextSeed]_vars

(***************************************************************************)
(* Properties of the rework planner (SpecRework).                          *)
(***************************************************************************)
Shared == DOMAIN rework_dict \cap DOMAIN target_dict

\* the shared ingredients with a positive rework quantity
Constraining == {i \in Shared : rework_dict[i] > 0}

PlanLines == {plan_df[k] : k \in 1..Len(plan_df)}

\* the plan in plan_df was computed at the fraction compute_max_safe_fraction gave
AtMaxSafe == limits_done /\ planned /\ reuse_fraction = max_f

\* C2: when rework and target share an ingredient with rework quantity > 0,
\* the plan computed at f* has no line with Over_Target? true, whatever the
\* line (shared, target-only, rework-only).
C2_MaxSafeBounded ==
    (AtMaxSafe /\ Constraining # {}) =>
        \A l \in PlanLines : ~l.Over_Target

\* C3: at f*, used_i <= target_i for every ingredient present in both
\* formulas, and used = target for the reported limiting ingredient whenever
\* there is one.
C3_UsedWithinTargetAtMaxSafe ==
    AtMaxSafe =>
        /\ \A l \in PlanLines :
               l.Ingredient \in Shared =>
                   RLe(l.Used_from_Rework_g, Rat(target_dict[l.Ingredient]))
        /\ limiting # NA =>
               \E l \in PlanLines :
                   /\ l.Ingredient = limiting
                   /\ l.Used_from_Rework_g = Rat(target_dict[limiting])

C3_Witness ==
    /\ AtMaxSafe
    /\ limiting # NA
    /\ max_f # Zero
    /\ \E l \in PlanLines :
           /\ l.Ingredient \in Shared
           /\ l.Ingredient # limiting
           /\ RLt(l.Used_from_Rework_g, Rat(target_dict[l.Ingredient]))

\* a reuse fraction strictly above f*, f* being a real minimum
AboveMaxSafe ==
    limits_done /\ planned /\ Constraining # {} /\ RLt(max_f, reuse_fraction)

\* C4 as stated: any fraction strictly above f*, by whatever amount, gives a
\* plan with at least one line whose Over_Target? is true.
C4_TightAboveMaxSafe ==
    AboveMaxSafe => \E l \in PlanLines : l.Over_Target

\* the amount by which the limiting ingredient is over-used, in quanta:
\* (f - f*) * rework_limiting
Excess == RMul(RSub(reuse_fraction, max_f), Rat(rework_dict[limiting]))

\* C4 as amended: any fraction strictly above f* gives the limiting
\* ingredient a negative add-back, and that line has Over_Target? true
\* exactly when the excess (f - f*) * rework is more than 1e-9 g: at least
\* one line is flagged once the excess is beyond the tolerance.
C4_TightBeyondTolerance ==
    AboveMaxSafe =>
        \E l \in PlanLines :
            /\ l.Ingredient = limiting
            /\ RLt(l.Add_Back_g, Zero)
            /\ l.Over_Target <=>
                   IF quanta_per_gram = 1 THEN RLt(Zero, Excess)
                   ELSE RLt(Rat(1), Excess)

C4_Witness ==
    /\ AboveMaxSafe
    /\ quanta_per_gram = EpsInv
    /\ RLt(Rat(1), Excess)
    /\ \E l \in PlanLines : l.Ingredient = limiting /\ l.Over_Target

PlanColumn(col(_)) == [k \in 1..Len(plan_df) |-> col(plan_df[k])]

\* C5: for any reuse fraction, sum(Used_from_Rework_g) + sum(Add_Back_g)
\* equals sum(Target_g) over the lines of the plan.
C5_PlanConservation ==
    planned =>
        RAdd(RSum(PlanColumn(LAMBDA l : l.Used_from_Rework_g)),
             RSum(PlanColumn(LAMBDA l : l.Add_Back_g)))
          = RSum(PlanColumn(LAMBDA l : Rat(l.Target_g)))

C5_Witness ==
    /\ planned
    /\ Len(plan_df) >= 2
    /\ reuse_fraction \notin {Zero, Rat(1)}
    /\ \E l \in PlanLines : RLt(l.Add_Back_g, Zero)
    /\ \E l \in PlanLines : RLt(Zero, l.Add_Back_g)

\* C6: f* is the minimum of target_i / rework_i over exactly the ingredients
\* present in both formulas with rework_i > 0 (the others are skipped or
\* ignored and no ratio is formed for them); the example of the
\* specification gives f* = 0.8, limited by B.
C6_MaxSafeIsMinRatio ==
    limits_done =>
        /\ {r.Ingredient : r \in limits_df} = Constraining
        /\ \A r \in limits_df : r.Ratio # Inf
        /\ Constraining # {} =>
               /\ limiting \in Constraining
               /\ max_f = Norm(<<target_dict[limiting], rework_dict[limiting]>>)
               /\ \A i \in Constraining :
                      max_f[1] * rework_dict[i] <= target_dict[i] * max_f[2]
        /\ (rework_dict = ExampleRework /\ target_dict = ExampleTarget) =>
               (max_f = <<4, 5>> /\ limiting = "B")

C6_Witness ==
    /\ limits_done
    /\ \E i \in Shared : rework_dict[i] = 0 /\ target_dict[i] > 0
    /\ \E i \in Constraining : target_dict[i] > 0
    /\ max_f # Zero

\* C7: with no shared ingredient, or only shared ingredients of rework
\* quantity 0, compute_max_safe_fraction runs to its end and returns
\* fraction 0 and limiting ingredient "N/A".
C7_NothingSharedGivesZero ==
    Constraining = {} =>
        /\ ~limits_done => ENABLED ComputeMaxSafeFraction
        /\ limits_done => (max_f = Zero /\ limiting = NA)

C7_Witness ==
    /\ limits_done
    /\ Shared # {}
    /\ Constraining = {}
    /\ limiting = NA

\* C8: the plan has exactly one line per ingredient of rework U target, with
\* used = f * rework (0 when absent from rework) and add_back = target - used
\* (target 0 when absent from target).
C8_PlanCoversUnion ==
    planned =>
        LET U == DOMAIN rework_dict \cup DOMAIN target_dict
            f == reuse_fraction
        IN  /\ Len(plan_df) = Cardinality(U)
            /\ \A i \in U :
                   LET rw == IF i \in DOMAIN rework_dict THEN rework_dict[i] ELSE 0
                       tg == IF i \in DOMAIN target_dict THEN target_dict[i] ELSE 0
                   IN  \E k \in 1..Len(plan_df) :
                           /\ plan_df[k].Ingredient = i
                           /\ plan_df[k].Used_from_Rework_g = Norm(<<f[1] * rw, f[2]>>)
                           /\ plan_df[k].Add_Back_g
                                  = Norm(<<tg * f[2] - f[1] * rw, f[2]>>)

C8_Witness ==
    /\ planned
    /\ reuse_fraction # Zero
    /\ \E i \in DOMAIN rework_dict \ DOMAIN target_dict : rework_dict[i] > 0
    /\ \E i \in DOMAIN target_dict \ DOMAIN rework_dict : target_dict[i] > 0

\* C9: for any reuse fraction the plan is returned in full; a line's
\* Over_Target? is true exactly when its add-back is below -1e-9 g, and a
\* negative add-back is kept as it is: used + add_back = target on every line.
C9_InfeasibleIsFlagged ==
    planned =>
        \A l \in PlanLines :
            /\ l.Over_Target <=>
                   IF quanta_per_gram = 1 THEN RLt(l.Add_Back_g, Zero)
                   ELSE RLt(l.Add_Back_g, Rat(0 - 1))
            /\ l.Used_from_Rework_g
                   = RMul(reuse_fraction, Rat(Get(rework_dict, l.Ingredient)))
            /\ RAdd(l.Used_from_Rework_g, l.Add_Back_g)
                   = Rat(Get(target_dict, l.Ingredient))

C9_Witness ==
    /\ AboveMaxSafe
    /\ \E l \in PlanLines : l.Over_Target /\ RLt(l.Add_Back_g, Zero)
    /\ \E l \in PlanLines : ~l.Over_Target /\ RLt(l.Add_Back_g, Zero)

(***************************************************************************)
(* Properties of the ratio scaler (SpecScale).                             *)
(***************************************************************************)
\* C1: whenever the old total is positive, for every rounding choice the
\* final scaled quantities (after rounding and drift correction) sum to
\* new_total.
C1_ScaleConservation ==
    calc = "done" => RSum(final) = new_total

C1_Witness ==
    /\ calc = "done"
    /\ rounding = "1 g"
    /\ Len(final) >= 2
    /\ RSum(Rounded(Raw(ratios, new_total), round_step(rounding))) # new_total

\* C10: without rounding, scaled_i = old_i / old_total * new_total for every
\* ingredient, that is scaled_i / new_total = old_i / old_total.
C10_ScaleProportional ==
    (calc = "done" /\ rounding = "No rounding") =>
        /\ Len(final) = Len(old_g)
        /\ \A k \in 1..Len(old_g) :
               /\ RMul(final[k], total_g) = RMul(Rat(old_g[k]), new_total)
               /\ new_total # Zero =>
                      RDiv(final[k], new_total) = RDiv(Rat(old_g[k]), total_g)

C10_Witness ==
    /\ calc = "done"
    /\ rounding = "No rounding"
    /\ \E k \in 1..Len(final) : final[k][2] > 2
    /\ \E j, k \in 1..Len(final) : RLt(final[j], final[k])

\* what the run computed before the drift correction
RawNow == Raw(ratios, new_total)
RoundedNow == Rounded(RawNow, round_step(rounding))

RAbs(x) == <<Abs(x[1]), x[2]>>

\* x is the multiple of step nearest to y, a tie going to the even multiple
NearestMultiple(x, y, step) ==
    LET m == RDiv(x, step)
        d == RMul(Rat(2), RAbs(RSub(x, y)))
    IN  /\ m[2] = 1
        /\ RLe(d, step)
        /\ d = step => m[1] % 2 = 0

Rounding == calc = "done" /\ rounding # "No rounding"

\* C11 as stated: with a positive granularity every scaled output quantity,
\* of every ingredient, is the multiple of the granularity nearest to raw_i
\* (ties to even).
C11_EveryLineNearestMultiple ==
    Rounding =>
        \A k \in 1..Len(final) :
            NearestMultiple(final[k], RawNow[k], round_step(rounding))

\* the index the drift goes to: the first one of the largest rounded value
IsDriftLine(b) ==
    /\ b \in 1..Len(RoundedNow)
    /\ \A j \in 1..Len(RoundedNow) : RLe(RoundedNow[j], RoundedNow[b])
    /\ \A j \in 1..(b - 1) : RLt(RoundedNow[j], RoundedNow[b])

\* C11 as amended: with a positive granularity every scaled output quantity
\* but the one of the drift-absorbing ingredient is the multiple of the
\* granularity nearest to raw_i (ties to even); the drift-absorbing ingredient
\* gets its nearest multiple plus new_total - sum(rounded), a multiple of the
\* granularity exactly when new_total is one.
C11_NearestMultipleButDriftLine ==
    Rounding =>
        LET step == round_step(rounding)
        IN  \A k \in 1..Len(final) :
                IF IsDriftLine(k)
                THEN /\ NearestMultiple(RoundedNow[k], RawNow[k], step)
                     /\ final[k] = RAdd(RoundedNow[k],
                                        RSub(new_total, RSum(RoundedNow)))
                     /\ RDiv(final[k], step)[2] = 1
                            <=> RDiv(new_total, step)[2] = 1
                ELSE NearestMultiple(final[k], RawNow[k], step)

\* a line other than the drift line sits on a tie, and the drift is not 0
C11_Witness ==
    /\ Rounding
    /\ RSum(RoundedNow) # new_total
    /\ \E k \in 1..Len(final) :
           /\ ~IsDriftLine(k)
           /\ RMul(Rat(2), RAbs(RSub(final[k], RawNow[k]))) = round_step(rounding)

\* C12: the drift correction changes one ingredient only: the drift
\* new_total - sum(rounded) is added in full to the ingredient of the largest
\* rounded quantity, the first in input order on a tie, and every other
\* ingredient keeps its rounded value.
C12_DriftGoesToFirstLargest ==
    Rounding =>
        /\ Len(final) = Len(old_g)
        /\ \E b \in 1..Len(final) :
               /\ IsDriftLine(b)
               /\ final[b] = RAdd(RoundedNow[b], RSub(new_total, RSum(RoundedNow)))
               /\ \A k \in 1..Len(final) : k # b => final[k] = RoundedNow[k]

\* two lines share the largest rounded value and the drift is not 0
C12_Witness ==
    /\ Rounding
    /\ RSum(RoundedNow) # new_total
    /\ \E b, k \in 1..Len(final) :
           /\ IsDriftLine(b)
           /\ k > b
           /\ RoundedNow[k] = RoundedNow[b]
           /\ final[k] # final[b]

\* C13: a press of "Calculate batch" with an old total <= 0 ends in the
\* error, and only then; on that path no ratio is computed (nothing is
\* divided by the total) and no scaled formula is produced.
C13_ZeroTotalRejected ==
    /\ calc = "error" <=> (calc # "idle" /\ RLe(total_g, Zero))
    /\ calc = "error" => (ratios = <<>> /\ final = <<>> /\ out_new_g = <<>>)
    /\ calc = "done" =>
           /\ RLt(Zero, total_g)
           /\ Len(ratios) = Len(old_g)
           /\ \A k \in 1..Len(ratios) : ratios[k] # Inf

C13_Witness ==
    /\ calc = "error"
    /\ Len(old_g) >= 2
    /\ new_total # Zero


(***************************************************************************)
(* Properties of the new batch total field (SpecScaleEntry).               *)
(***************************************************************************)
\* "Calculate batch" was pressed after a negative total was typed
PressedOnNegative == calc # "idle" /\ RLt(typed_total, Zero)

C15_EmptyTotalsRejected ==
    /\ (rw_calc # "idle" /\ (rework_total <= 0 \/ target_total <= 0))
           => rw_calc = "error"
    /\ rw_calc = "error" =>
           /\ ~limits_done /\ max_f = Inf /\ limits_df = {}
           /\ ~planned /\ plan_df = <<>>
           /\ reuse_pct = None
    /\ rw_calc = "done" =>
           /\ rework_total > 0 /\ target_total > 0
           /\ limits_done /\ planned /\ reuse_pct # None

C15_Witness ==
    /\ rw_calc = "error"
    /\ rework_total > 0
    /\ target_total = 0
    /\ DOMAIN rework_dict \cap DOMAIN target_dict # {}


(***************************************************************************)
(* The lines of the plan (SpecRework).                                     *)
(***************************************************************************)
\* the tag the line of ingredient i should carry
ProvenanceOf(i) ==
    IF Get(rework_dict, i) > 0 /\ Get(target_dict, i) > 0 THEN "shared"
    ELSE IF Get(target_dict, i) > 0 THEN "target-only"
    ELSE "rework-only"

\* C17: every line of the reuse plan carries a provenance tag, "shared" when
\* the ingredient is in both formulas with nonzero rework and target
\* quantities, "target-only" or "rework-only" otherwise.
C17_LinesCarryProvenance ==
    planned =>
        \A l \in PlanLines :
            /\ "Provenance" \in DOMAIN l
            /\ l.Provenance = ProvenanceOf(l.Ingredient)


(***************************************************************************)
(* Properties of the inventory ledger (SpecLedger).                        *)
(***************************************************************************)
Positions == Materials \X Locations \X UOMs

\* the signed sum of a position: what was received less what was issued
SignedSum(m, loc, u) ==
    LET rows == GroupRows(ledger, m, loc, u)
        rcv  == SelectSeq(rows, LAMBDA t : t.TxnType = "RECEIPT")
        iss  == SelectSeq(rows, LAMBDA t : t.TxnType = "ISSUE")
    IN  RSub(RSum([k \in 1..Len(rcv) |-> rcv[k].Qty]),
             RSum([k \in 1..Len(iss) |-> RSub(Zero, iss[k].Qty)]))

HasRows(m, loc, u) == GroupRows(ledger, m, loc, u) # <<>>

\* the on-hand get_on_hand reports for a position, if it reports one
Reported(m, loc, u) ==
    {r.OnHand : r \in {x \in get_on_hand(ledger) :
        x.MaterialCode = m /\ x.LocationCode = loc /\ x.UOM = u}}

IsRound4(x, y) ==
    /\ Times10000(x)[2] = 1
    /\ RLe(RAbs(RSub(Times10000(x), Times10000(y))), <<1, 2>>)

C19_LedgerAppendOnly ==
    [][/\ Len(ledger') >= Len(ledger)
       /\ SubSeq(ledger', 1, Len(ledger)) = ledger]_vars

C19_Witness ==
    /\ Len(ledger) >= 2
    /\ ledger[1].TxnType = "RECEIPT"
    /\ ledger[2].TxnType = "ISSUE"

(***************************************************************************)
(* Properties of the feasibility check (SpecFeas).                         *)
(***************************************************************************)
BomMaterials == {bom_rows[k].MaterialKey : k \in 1..Len(bom_rows)}

\* units * weight per unit * (the percentages of material m, added up) / 100
RequiredOf(m) ==
    LET mine == SelectSeq(bom_rows, LAMBDA r : r.MaterialKey = m)
        pct  == RSum([k \in 1..Len(mine) |-> mine[k].Pct])
    IN  RDiv(RMul(RMul(units, weight_per_unit_lb), pct), Rat(100))

\* the result is the table of the specification's example
IsExample ==
    /\ RMul(units, weight_per_unit_lb) = Rat(1000)
    /\ DOMAIN feas_rows = {"A", "B"}
    /\ feas_rows["A"].RequiredLB = Rat(700) /\ feas_rows["A"].OnHand = Rat(500)
    /\ feas_rows["B"].RequiredLB = Rat(300) /\ feas_rows["B"].OnHand = Rat(400)

\* C16 as stated: every BOM material has a row with required = total_weight
\* * percent / 100, shortage = required - on_hand (negative values kept) and
\* status FAIL exactly when required - on_hand > 0, otherwise PASS.
C16_ShortageIsDifference ==
    feas_calc = "done" =>
        /\ DOMAIN feas_rows = BomMaterials
        /\ \A m \in BomMaterials :
               /\ feas_rows[m].RequiredLB = RequiredOf(m)
               /\ feas_rows[m].Shortage
                      = RSub(feas_rows[m].RequiredLB, feas_rows[m].OnHand)
               /\ feas_rows[m].Status = "FAIL"
                      <=> RLt(feas_rows[m].OnHand, feas_rows[m].RequiredLB)
               /\ feas_rows[m].Status \in {"FAIL", "PASS"}

\* C16 as amended: every BOM material has one row with required =
\* total_weight * percent / 100 (the percentages of a material listed more
\* than once added up), on_hand the on-hand of the selected location and unit
\* (0 when there is none), shortage = required - on_hand rounded to 4
\* decimals, negative values kept, and status FAIL exactly when that rounded
\* shortage is > 0, otherwise PASS: a material short by less than 0.00005
\* passes.  The example gives A: 700, shortage 200, FAIL; B: 300, -100, PASS.
C16_ShortageIsRoundedDifference ==
    feas_calc = "done" =>
        /\ DOMAIN feas_rows = BomMaterials
        /\ \A m \in BomMaterials :
               LET row  == feas_rows[m]
                   diff == RSub(row.RequiredLB, row.OnHand)
               IN  /\ row.RequiredLB = RequiredOf(m)
                   /\ row.OnHand
                          = IF HasRows(m, location_code, uom)
                            THEN get_on_hand_by_location(ledger, location_code, uom)[m]
                            ELSE Zero
                   /\ IsRound4(row.Shortage, diff)
                   /\ RLt(diff, Zero) => RLe(row.Shortage, Zero)
                   /\ RLe(Times10000(diff), Rat(0 - 1)) => RLt(row.Shortage, Zero)
                   /\ row.Status = "FAIL" <=> RLt(Zero, row.Shortage)
                   /\ row.Status = "PASS" <=> RLe(row.Shortage, Zero)
                   /\ RLt(<<1, 2>>, Times10000(diff)) => row.Status = "FAIL"
                   /\ RLt(Times10000(diff), <<1, 2>>) => row.Status = "PASS"
        /\ IsExample =>
               /\ feas_rows["A"].Shortage = Rat(200)
               /\ feas_rows["A"].Status = "FAIL"
               /\ feas_rows["B"].Shortage = Rat(0 - 100)
               /\ feas_rows["B"].Status = "PASS"

\* the example of the specification has been computed
C16_Witness ==
    /\ feas_calc = "done"
    /\ IsExample
    /\ feas_rows["B"].Shortage = Rat(0 - 100)

(***************************************************************************)
(* Properties of the core computations together (SpecCore).                *)
(***************************************************************************)
\* every result in the state is the value of its function on the inputs in
\* the state
ResultsFollowInputs ==
    /\ limits_done =>
           LET r == compute_max_safe_fraction(rework_dict, target_dict)
           IN  max_f = r.max_f /\ limiting = r.limiting /\ limits_df = r.rows
    /\ planned =>
           plan_df = compute_plan(rework_dict, target_dict, reuse_fraction,
                                  quanta_per_gram)
    /\ calc = "done" =>
           final = Final(Raw(Ratios(old_g, total_g[1]), new_total),
                         round_step(rounding), new_total)
    /\ feas_calc = "done" =>
           feas_rows = FeasibilityRows(
                           bom_rows, total_weight_lb(units, weight_per_unit_lb),
                           get_on_hand_by_location(ledger, location_code, uom))

RowsInUnit(m) ==
    SelectSeq(ledger, LAMBDA t :
        t.MaterialCode = m /\ t.LocationCode = location_code /\ t.UOM = uom)

\* C21: feasibility compares exact units only: the on-hand of a material is
\* taken from the ledger rows of the selected location whose unit is the
\* selected compare unit and from no other row, required and on-hand are not
\* converted (required is units * weight * percent / 100 whatever the unit,
\* on-hand is the rounded sum of those rows), and the notice about exact
\* units is shown exactly when the compare unit is not LB.
C21_ExactUnitOnly ==
    /\ feas_calc = "done" =>
           \A m \in BomMaterials :
               /\ feas_rows[m].OnHand
                      = IF RowsInUnit(m) = <<>> THEN Zero
                        ELSE SqlRound4(RSum([k \in 1..Len(RowsInUnit(m)) |->
                                                RowsInUnit(m)[k].Qty]))
               /\ feas_rows[m].RequiredLB = RequiredOf(m)
    /\ (feas_calc # "idle" /\ weight_per_unit_lb # NoTarget) =>
           (uom_notice <=> uom # "LB")

\* a check in KG of a material received in LB only: nothing on hand, notice
C21_Witness ==
    /\ feas_calc = "done"
    /\ uom = "KG"
    /\ uom_notice
    /\ \E m \in BomMaterials :
           /\ RowsInUnit(m) = <<>>
           /\ \E k \in 1..Len(ledger) :
                  /\ ledger[k].MaterialCode = m
                  /\ ledger[k].LocationCode = location_code
                  /\ ledger[k].UOM = "LB"
           /\ feas_rows[m].OnHand = Zero
           /\ feas_rows[m].Status = "FAIL"

(***************************************************************************)
(* Ties of compute_max_safe_fraction (SpecRework).                         *)
(***************************************************************************)
\* target / rework of a constraining ingredient
RatioOf(i) == RDiv(Rat(target_dict[i]), Rat(rework_dict[i]))

\* the constraining ingredients that attain the minimum ratio
AtMinimum == {i \in Constraining : \A j \in Constraining : RLe(RatioOf(i), RatioOf(j))}

\* position of an ingredient code in sorted order
PosOf(i) == CHOOSE k \in 1..Len(IngNames) : IngNames[k] = i

\* C22: when several shared ingredients attain the minimum target/rework
\* ratio, the limiting ingredient reported is the first of them in sorted
\* ingredient order, and the fraction returned is the ratio of each of them.
C22_FirstOfTiesReported ==
    (limits_done /\ Constraining # {}) =>
        /\ limiting \in AtMinimum
        /\ \A i \in AtMinimum : PosOf(limiting) <= PosOf(i)
        /\ \A i \in AtMinimum : max_f = RatioOf(i)

\* two or more ingredients tie at the minimum, a third does not
C22_Witness ==
    /\ limits_done
    /\ Cardinality(AtMinimum) >= 2
    /\ Constraining # AtMinimum
    /\ limiting = "A"
    /\ max_f # Zero

(***************************************************************************)
(* Sign of the scaled quantities (SpecScale).                              *)
(***************************************************************************)
\* C23: every quantity of the scaled formula is >= 0, for any formula with
\* a positive old total, any new total >= 0 and any rounding step, the line
\* that absorbs the rounding drift included.
C23_ScaledQuantitiesNonNegative ==
    calc = "done" => \A k \in 1..Len(final) : RLe(Zero, final[k])

(***************************************************************************)
(* Sign of the on-hand quantities (SpecLedger).                            *)
(***************************************************************************)
\* C24: after any sequence of posted receipts and issues the on-hand of
\* every (material, location, unit) position is >= 0, in the sum of its
\* ledger rows and in what get_on_hand and get_on_hand_by_location report.
C24_OnHandNeverNegative ==
    \A p \in Positions :
        /\ RLe(Zero, SignedSum(p[1], p[2], p[3]))
        /\ \A x \in Reported(p[1], p[2], p[3]) : RLe(Zero, x)
        /\ HasRows(p[1], p[2], p[3]) =>
               RLe(Zero, get_on_hand_by_location(ledger, p[2], p[3])[p[1]])

(***************************************************************************)
(* The reuse fraction of the Auto mode (SpecReworkPage).                   *)
(***************************************************************************)
\* min(1, f)
CappedAtOne(f) == IF RLt(Rat(1), f) THEN Rat(1) ELSE f

\* C25: in "Auto (max safe)" mode the reuse fraction given to compute_plan is
\* min(1, f*), f* the fraction compute_max_safe_fraction returns for the
\* rework and target formulas; the plan shown is the plan at that fraction
\* and uses of no ingredient more than the rework holds, also when f* > 1.
C25_AutoFractionCapped ==
    (rw_calc = "done" /\ mode = "Auto (max safe)") =>
        /\ max_f = compute_max_safe_fraction(rework_dict, target_dict).max_f
        /\ reuse_fraction = CappedAtOne(max_f)
        /\ RLe(reuse_fraction, Rat(1))
        /\ plan_df = compute_plan(rework_dict, target_dict, CappedAtOne(max_f),
                                  quanta_per_gram)
        /\ \A l \in PlanLines :
               RLe(l.Used_from_Rework_g, Rat(Get(rework_dict, l.Ingredient)))

\* Auto mode with f* > 1: the whole rework is used and no more
C25_Witness ==
    /\ rw_calc = "done"
    /\ mode = "Auto (max safe)"
    /\ RLt(Rat(1), max_f)
    /\ reuse_fraction = Rat(1)
    /\ \E l \in PlanLines :
           l.Rework_g > 0 /\ l.Used_from_Rework_g = Rat(l.Rework_g)

(***************************************************************************)
(* Properties of the Production Batch page (SpecBatch).                    *)
(***************************************************************************)
\* position of a stage in the order PRE-BATCH ... READY TO SHIP
StageOf(status) == CHOOSE k \in 1..Len(STATUSES) : STATUSES[k] = status

\* C26: a batch's stage only moves forward: every "Save Stage" leaves each
\* batch at the same or a later stage of PRE-BATCH, MAKING, QC, LABELING &
\* PACKING, READY TO SHIP, and its progress percentage never decreases.
C26_StageOnlyMovesForward ==
    [][\A k \in 1..Len(batches) :
           /\ k <= Len(batches')
           /\ StageOf(batches'[k].Status) >= StageOf(batches[k].Status)
           /\ STATUS_TO_PROGRESS(batches'[k].Status)
                  >= STATUS_TO_PROGRESS(batches[k].Status)]_vars

\* the messages of the "Create Batch" button
CreateMessages ==
    {"Enter your name.", "Enter a Batch Number.",
     "Qty (Units) must be greater than 0.",
     "Could not create batch (duplicate BatchNumber?)",
     "Batch created -> PRE-BATCH (25%)."}

\* the fields as they are fail one of the checks of "Create Batch"
FieldsInvalid == Strip(user) = <<>> \/ Strip(batch_number) = <<>> \/ qty_units <= 0

\* C27: every row of ProductionBatch is created with status PRE-BATCH
\* (progress 25); a row is inserted only when the user name and the batch
\* number are non-empty and Qty (Units) > 0; a press of "Create Batch" with
\* one of these checks failing leaves the table as it was.
C27_CreatedInPreBatchWhenValid ==
    [][/\ Len(batches') > Len(batches) =>
              /\ Len(batches') = Len(batches) + 1
              /\ SubSeq(batches', 1, Len(batches)) = batches
              /\ batches'[Len(batches')].Status = "PRE-BATCH"
              /\ STATUS_TO_PROGRESS(batches'[Len(batches')].Status) = 25
              /\ batches'[Len(batches')].QtyUnits > 0
              /\ batches'[Len(batches')].BatchNumber # <<>>
              /\ batches'[Len(batches')].CreatedBy # <<>>
              /\ ~FieldsInvalid'
       /\ (pb_msg' \in CreateMessages /\ FieldsInvalid') => batches' = batches
    ]_vars

\* a batch was created and moved on, then a press with Qty 0 was refused
C27_Witness ==
    /\ Len(batches) = 1
    /\ batches[1].Status = "MAKING"
    /\ pb_msg = "Qty (Units) must be greater than 0."
    /\ Strip(user) # <<>> /\ Strip(batch_number) # <<>> /\ qty_units = 0

BatchNumbersInUse == {batches[k].BatchNumber : k \in 1..Len(batches)}

\* C28: batch numbers are unique: no two rows of ProductionBatch share a
\* BatchNumber at any time, and a press of "Create Batch" with valid fields
\* and a batch number (as stored: stripped) that a row already has shows the
\* error, inserts nothing and leaves every row, its status included, as it
\* was.
C28_BatchNumbersUnique ==
    /\ [](\A j, k \in 1..Len(batches) :
              batches[j].BatchNumber = batches[k].BatchNumber => j = k)
    /\ [][(/\ pb_msg' \in CreateMessages
           /\ ~FieldsInvalid'
           /\ Strip(batch_number') \in BatchNumbersInUse)
          => /\ pb_msg' = "Could not create batch (duplicate BatchNumber?)"
             /\ batches' = batches]_vars

\* a number typed with a blank, taken by a batch that has moved on: refused
C28_Witness ==
    /\ pb_table = "present"
    /\ pb_msg = "Could not create batch (duplicate BatchNumber?)"
    /\ Len(batches) = 2
    /\ batch_number # Strip(batch_number)
    /\ \E k \in 1..Len(batches) :
           /\ batches[k].BatchNumber = Strip(batch_number)
           /\ batches[k].Status = "QC"

(***************************************************************************)
(* Posting a receipt (SpecLedger).                                         *)
(***************************************************************************)
\* the step adds RECEIPT rows to the ledger
ReceiptPosted ==
    /\ Len(ledger') > Len(ledger)
    /\ ledger'[Len(ledger')].TxnType = "RECEIPT"

RowsWithCode(code) ==
    Cardinality({k \in 1..Len(MaterialMaster) : MaterialMaster[k].MaterialCode = code})

\* C30: database initialisation is idempotent: after init_db and
\* load_materials_from_csv have run once, running them again leaves
\* Locations and MaterialMaster as they are, with exactly one row per seeded
\* location code and per material code of the file, and no run changes or
\* removes a row of InventoryTxn.
C30_InitIsIdempotent ==
    /\ [](app_runs >= 1 =>
              /\ \A j \in 1..Len(SeedLocations) :
                     Cardinality({k \in 1..Len(LocationsTable) :
                                      LocationsTable[k] = SeedLocations[j]}) = 1
              /\ \A j \in 1..Len(csv_rows) :
                     csv_rows[j].MaterialCode # NoCode =>
                         RowsWithCode(csv_rows[j].MaterialCode) = 1)
    /\ [][/\ ledger' = ledger
          /\ app_runs >= 1 =>
                 /\ LocationsTable' = LocationsTable
                 /\ MaterialMaster' = MaterialMaster]_vars

=============================================================================
